---- MODULE Spec2Model ----
(***************************************************************************)
(* Model of BasicPlayingCard.py: CardVariation, Card and Deck.             *)
(*                                                                         *)
(* Strings that the program only stores, compares for equality or          *)
(* concatenates (display tokens, names) are TLA+ strings.  Attribute names *)
(* (the keys of the value and rank dictionaries) are inspected character   *)
(* by character by the program (regular expression, sorting in dir()), so  *)
(* they are tuples of one-character strings: "ACE" is <<"A","C","E">>.     *)
(* A Python dict is the sequence of its <<key, item>> pairs in insertion   *)
(* order.  The suit glyphs U+2664, U+2667, U+2665, U+2666 are written by   *)
(* their code point names.                                                 *)
(***************************************************************************)
EXTENDS Integers, Sequences, FiniteSets, Bags, TLC

VARIABLES
  ctorArgs,       \* the dictionaries handed to CardVariation.__init__
  cardVariation,  \* Deck._cardVariation
  deck,           \* Deck._deck
  length,         \* Deck._length
  randomInit,     \* Deck._randomInit
  op,             \* the last call made on the deck and its arguments
  ret,            \* what that call returned or raised
  pre,            \* the deck's fields when that call started
  original,       \* what the constructor produced: its size and its cards
  drawn,          \* the cards that draw returned since the deck was built
  callers,        \* where each caller of draw is in its call, and its locals
  lock,           \* the caller that holds the mutex around draw, if any
  guarded         \* whether the callers take the mutex around draw

vars ==
  <<ctorArgs, cardVariation, deck, length, randomInit, op, ret, pre, original,
    drawn, callers, lock, guarded>>

----------------------------------------------------------------------------
(* Bounds *)

\* largest number of entries of a dictionary handed to CardVariation
MaxKeys == 2

\* largest numCards handed to draw
MaxDraw == 5

\* largest size that draws of negative counts are followed to
MaxLength == 6

\* the largest number of (value key, rank key) pairs of a custom variation
MaxCards == 4

----------------------------------------------------------------------------
(* Characters and attribute names *)

UpperCase ==
  <<"A","B","C","D","E","F","G","H","I","J","K","L","M",
    "N","O","P","Q","R","S","T","U","V","W","X","Y","Z">>

LowerCase ==
  <<"a","b","c","d","e","f","g","h","i","j","k","l","m",
    "n","o","p","q","r","s","t","u","v","w","x","y","z">>

IsUpper(c) == \E i \in 1..Len(UpperCase) : UpperCase[i] = c

IsLower(c) == \E i \in 1..Len(LowerCase) : LowerCase[i] = c

\* code point of a character: Python compares strings by code point
Ord(c) ==
  IF IsUpper(c) THEN 64 + (CHOOSE i \in 1..Len(UpperCase) : UpperCase[i] = c)
  ELSE IF IsLower(c) THEN 96 + (CHOOSE i \in 1..Len(LowerCase) : LowerCase[i] = c)
  ELSE IF c = "_" THEN 95
  ELSE 10

\* the character class "." of a regular expression: anything but a newline
IsDot(c) == Ord(c) # 10

\* Python's s < t on strings
RECURSIVE StrLess(_, _)
StrLess(s, t) ==
  IF t = <<>> THEN FALSE
  ELSE IF s = <<>> THEN TRUE
  ELSE IF Ord(Head(s)) # Ord(Head(t)) THEN Ord(Head(s)) < Ord(Head(t))
  ELSE StrLess(Tail(s), Tail(t))

\* sorted(S) for a set of strings
RECURSIVE Sorted(_)
Sorted(S) ==
  IF S = {} THEN <<>>
  ELSE LET m == CHOOSE x \in S : \A y \in S : x = y \/ StrLess(x, y)
       IN <<m>> \o Sorted(S \ {m})

\* a pattern that takes every name that is not empty, such as .+
AnyAttributeName(name) == Len(name) >= 1

\* re.search(ATTRIBUTE_SEARCH_KEY, name) is not None, for the pattern
\* ^[A-Z]*.*[A-Z]$
ATTRIBUTE_SEARCH_KEY(name) ==
  /\ Len(name) >= 1
  /\ \E i \in 0..(Len(name) - 1) :
        /\ \A j \in 1..i : IsUpper(name[j])
        /\ \A j \in (i + 1)..(Len(name) - 1) : IsDot(name[j])
        /\ IsUpper(name[Len(name)])

\* attribute names every class inherits from object (a sample of them)
ObjectAttributes ==
  { <<"_","_","d","o","c","_","_">>,
    <<"_","_","d","i","c","t","_","_">> }

\* what getattr gives for an inherited attribute: not a display token
ObjectAttributeValue == "<object attribute>"

----------------------------------------------------------------------------
(* Module constants *)

None == "<None>"

PRIORITY_NEUTRAL == "PRI_NEUT"

SUBSTITUTION_VALUE == "{VALUE}"

SUBSTITUTION_RANK == "{RANK}"

\* a name scheme is the sequence of its literal parts and substitutions
DEFAULT_NAME_SCHEME == <<SUBSTITUTION_VALUE, " OF ", SUBSTITUTION_RANK>>

STANDARD_52_NAME_SCHEME == <<SUBSTITUTION_VALUE, SUBSTITUTION_RANK>>

STANDARD_52_VALUES ==
  << <<<<"A","C","E">>, "A">>, <<<<"T","W","O">>, "2">>,
     <<<<"T","H","R","E","E">>, "3">>, <<<<"F","O","U","R">>, "4">>,
     <<<<"F","I","V","E">>, "5">>, <<<<"S","I","X">>, "6">>,
     <<<<"S","E","V","E","N">>, "7">>, <<<<"E","I","G","H","T">>, "8">>,
     <<<<"N","I","N","E">>, "9">>, <<<<"T","E","N">>, "10">>,
     <<<<"J","A","C","K">>, "J">>, <<<<"Q","U","E","E","N">>, "Q">>,
     <<<<"K","I","N","G">>, "K">> >>

STANDARD_52_RANKS ==
  << <<<<"S","P","A","D","E","S">>, "U+2664">>,
     <<<<"C","L","U","B","S">>, "U+2667">>,
     <<<<"H","E","A","R","T","S">>, "U+2665">>,
     <<<<"D","I","A","M","O","N","D","S">>, "U+2666">> >>

STANDARD_52_VALUE_HIERARCHY ==
  << <<<<"A","C","E">>, 13>>, <<<<"T","W","O">>, 1>>,
     <<<<"T","H","R","E","E">>, 2>>, <<<<"F","O","U","R">>, 3>>,
     <<<<"F","I","V","E">>, 4>>, <<<<"S","I","X">>, 5>>,
     <<<<"S","E","V","E","N">>, 6>>, <<<<"E","I","G","H","T">>, 7>>,
     <<<<"N","I","N","E">>, 8>>, <<<<"T","E","N">>, 9>>,
     <<<<"J","A","C","K">>, 10>>, <<<<"Q","U","E","E","N">>, 11>>,
     <<<<"K","I","N","G">>, 12>> >>

STANDARD_52_RANK_HIERARCHY ==
  << <<<<"S","P","A","D","E","S">>, 4>>,
     <<<<"C","L","U","B","S">>, 1>>,
     <<<<"H","E","A","R","T","S">>, 3>>,
     <<<<"D","I","A","M","O","N","D","S">>, 2>> >>

----------------------------------------------------------------------------
(* CardVariation *)

\* the keys of a dict
Keys(dict) == { dict[i][1] : i \in 1..Len(dict) }

\* the class object filled by "for key in dict.keys(): setattr(cls, key,
\* dict[key])": its attributes, without any order
SetAttrs(dict) ==
  [ k \in Keys(dict) |->
      dict[CHOOSE i \in 1..Len(dict) : dict[i][1] = k][2] ]

\* CardVariation.__init__
CardVariation(cardValues, cardRanks, valueHierarchy, rankHierarchy, priority, nameScheme) ==
  [ VALUES          |-> SetAttrs(cardValues),
    RANKS           |-> SetAttrs(cardRanks),
    VALUE_HIERARCHY |-> SetAttrs(valueHierarchy),
    RANK_HIERARCHY  |-> SetAttrs(rankHierarchy),
    PRIORITY        |-> priority,
    NAME_SCHEME     |-> nameScheme ]

\* dir(cls): the sorted names of the attributes of the class and of object
Dir(cls) == Sorted(DOMAIN cls \cup ObjectAttributes)

\* getattr(cls, name)
GetAttr(cls, name) ==
  IF name \in DOMAIN cls THEN cls[name] ELSE ObjectAttributeValue

----------------------------------------------------------------------------
(* Card *)

\* nameScheme.format(VALUE=value, RANK=rank)
RECURSIVE Format(_, _, _)
Format(nameScheme, value, rank) ==
  IF nameScheme = <<>> THEN ""
  ELSE LET part == Head(nameScheme)
           text == IF part = SUBSTITUTION_VALUE THEN value
                   ELSE IF part = SUBSTITUTION_RANK THEN rank
                   ELSE part
       IN text \o Format(Tail(nameScheme), value, rank)

\* Card.__init__
Card(variation, value, rank, name) ==
  [ value |-> value,
    rank  |-> rank,
    name  |-> IF name = None
              THEN Format(variation.NAME_SCHEME, value, rank)
              ELSE name,
    image |-> None,
    cardVariation |-> variation ]

\* an equality that looks at the value alone
CardEqByValue(a, b) == a.value = b.value

\* the equality of object, which Card would have without __eq__
CardEqSameObject(a, b) == a = b

\* Card.__eq__; both operands are Cards, as its assertion demands
CardEq(a, b) == a.value = b.value /\ a.rank = b.rank

\* Card.__ne__; both operands are Cards, as its assertion demands
CardNe(a, b) == a.value # b.value \/ a.rank # b.rank

----------------------------------------------------------------------------
(* Deck: the pure parts *)

\* the names that the comprehension of Deck.__init__ iterates over
AttributeNames(cls) == SelectSeq(Dir(cls), ATTRIBUTE_SEARCH_KEY)

\* a comprehension with the two loops exchanged: ranks outer, values inner
BuildDeckRanksOuter(variation) ==
  LET vs == AttributeNames(variation.VALUES)
      rs == AttributeNames(variation.RANKS)
  IN [ i \in 1..(Len(vs) * Len(rs)) |->
         Card(variation,
              GetAttr(variation.VALUES, vs[((i - 1) % Len(vs)) + 1]),
              GetAttr(variation.RANKS, rs[((i - 1) \div Len(vs)) + 1]),
              None) ]

\* the list comprehension of Deck.__init__: values outer, ranks inner
BuildDeck(variation) ==
  LET vs == AttributeNames(variation.VALUES)
      rs == AttributeNames(variation.RANKS)
  IN [ i \in 1..(Len(vs) * Len(rs)) |->
         Card(variation,
              GetAttr(variation.VALUES, vs[((i - 1) \div Len(rs)) + 1]),
              GetAttr(variation.RANKS, rs[((i - 1) % Len(rs)) + 1]),
              None) ]

\* a shuffle that picks every position independently
ShufflesWithReplacement(d) ==
  { [ i \in 1..Len(d) |-> d[p[i]] ] : p \in [ 1..Len(d) -> 1..Len(d) ] }

\* the lists random.shuffle(d) can leave in d
Shuffles(d) ==
  { [ i \in 1..Len(d) |-> d[p[i]] ] : p \in Permutations(1..Len(d)) }

\* the decks Deck.__init__ can produce
InitDecks(variation, flag) ==
  IF flag THEN Shuffles(BuildDeck(variation)) ELSE { BuildDeck(variation) }

\* a loop that runs once more than range(numCards)
RECURSIVE DrawLoopOnceMore(_, _, _, _)
DrawLoopOnceMore(d, drawnCards, i, numCards) ==
  IF i > numCards
  THEN [ deck |-> d, drawnCards |-> drawnCards, raised |-> None ]
  ELSE IF d = <<>>
  THEN [ deck |-> d, drawnCards |-> drawnCards, raised |-> "IndexError" ]
  ELSE DrawLoopOnceMore(SubSeq(d, 1, Len(d) - 1),
                        Append(drawnCards, d[Len(d)]), i + 1, numCards)

\* a loop that takes the cards from the front: pop(0)
RECURSIVE DrawLoopFromFront(_, _, _, _)
DrawLoopFromFront(d, drawnCards, i, numCards) ==
  IF i >= numCards
  THEN [ deck |-> d, drawnCards |-> drawnCards, raised |-> None ]
  ELSE IF d = <<>>
  THEN [ deck |-> d, drawnCards |-> drawnCards, raised |-> "IndexError" ]
  ELSE DrawLoopFromFront(Tail(d), Append(drawnCards, Head(d)),
                         i + 1, numCards)

\* the loop "for i in range(numCards): drawnCards.append(self._deck.pop())"
\* from its i-th iteration on; pop on an empty list raises IndexError
RECURSIVE DrawLoop(_, _, _, _)
DrawLoop(d, drawnCards, i, numCards) ==
  IF i >= numCards
  THEN [ deck |-> d, drawnCards |-> drawnCards, raised |-> None ]
  ELSE IF d = <<>>
  THEN [ deck |-> d, drawnCards |-> drawnCards, raised |-> "IndexError" ]
  ELSE DrawLoop(SubSeq(d, 1, Len(d) - 1),
                Append(drawnCards, d[Len(d)]), i + 1, numCards)

\* a test that is off by one
CanDrawOneMore(len, numCards) == len + 1 >= numCards

\* a test that lets a draw start whenever a card is left
CanDrawPartially(len, numCards) == len > 0

\* the test "self._length >= numCards" of Deck.draw
CanDraw(len, numCards) == len >= numCards

\* a flag that is also true when no card was asked for
DrawFlagOfEmptyDraw(drawnCards) == Len(drawnCards) >= 0

\* the first element of the tuple draw returns
DrawFlag(drawnCards) == Len(drawnCards) > 0

\* the loop of Deck.search from index i on (Python indices start at 0);
\* indexing past the end of the list raises IndexError
RECURSIVE SearchLoop(_, _, _, _)
SearchLoop(d, len, searchCard, i) ==
  IF i >= len THEN [ index |-> -1, raised |-> None ]
  ELSE IF i + 1 > Len(d) THEN [ index |-> -1, raised |-> "IndexError" ]
  ELSE IF CardEq(searchCard, d[i + 1]) THEN [ index |-> i, raised |-> None ]
  ELSE SearchLoop(d, len, searchCard, i + 1)

----------------------------------------------------------------------------
(* Inputs *)

\* the keys tried for the values: "A", "K" and, in lower case, "k"
ValueKeys == { <<"A">>, <<"K">>, <<"k">> }

\* the display tokens tried for a value key: two keys may share a token
ValueTokens(key) ==
  IF key = <<"A">> THEN { "A" }
  ELSE IF key = <<"K">> THEN { "K", "A" }
  ELSE { "k" }

\* the keys tried for the ranks: "S" and "C"
RankKeys == { <<"S">>, <<"C">> }

RankToken(key) == IF key = <<"C">> THEN "U+2667" ELSE "U+2664"

\* the sequences over S without repetition, n long at most
RECURSIVE Arrangements(_, _)
Arrangements(S, n) ==
  IF n = 0 THEN { <<>> }
  ELSE LET shorter == Arrangements(S, n - 1)
           longer  == { Append(a, x) : a \in shorter, x \in S }
       IN shorter \cup
          { c \in longer : \A i, j \in 1..Len(c) : i # j => c[i] # c[j] }

ValueDicts ==
  UNION { { [ i \in 1..Len(ks) |-> <<ks[i], ts[i]>> ] :
              ts \in { f \in [ 1..Len(ks) -> { "A", "K", "k" } ] :
                        \A i \in 1..Len(ks) : f[i] \in ValueTokens(ks[i]) } } :
          ks \in Arrangements(ValueKeys, MaxKeys) }

RankDicts ==
  { [ i \in 1..Len(ks) |-> <<ks[i], RankToken(ks[i])>> ] :
      ks \in Arrangements(RankKeys, MaxKeys) }

\* a hierarchy that ranks the keys of a dict by their position
PositionHierarchy(dict) == [ i \in 1..Len(dict) |-> <<dict[i][1], i>> ]

CustomArgs ==
  { [ cardValues     |-> vd,
      cardRanks      |-> rd,
      valueHierarchy |-> PositionHierarchy(vd),
      rankHierarchy  |-> PositionHierarchy(rd),
      priority       |-> PRIORITY_NEUTRAL,
      nameScheme     |-> DEFAULT_NAME_SCHEME ] :
    <<vd, rd>> \in { p \in ValueDicts \X RankDicts :
                     Len(p[1]) * Len(p[2]) <= MaxCards } }

Standard52Args ==
  [ cardValues     |-> STANDARD_52_VALUES,
    cardRanks      |-> STANDARD_52_RANKS,
    valueHierarchy |-> STANDARD_52_VALUE_HIERARCHY,
    rankHierarchy  |-> STANDARD_52_RANK_HIERARCHY,
    priority       |-> PRIORITY_NEUTRAL,
    nameScheme     |-> STANDARD_52_NAME_SCHEME ]

VariationOf(args) ==
  CardVariation(args.cardValues, args.cardRanks, args.valueHierarchy,
                args.rankHierarchy, args.priority, args.nameScheme)

STANDARD_52 == VariationOf(Standard52Args)

DrawArgs == 0..MaxDraw

QueryValues == { "A", "?" }

QueryRanks == { "U+2664" }

QueryNames == { None, "joker" }

NoCard == [ value |-> "", rank |-> "", name |-> "" ]

NoArgs ==
  [ numCards |-> 0, searchCard |-> NoCard, randomInit |-> FALSE,
    self |-> NoCard, other |-> NoCard ]

NoRet == [ flag |-> FALSE, drawnCards |-> <<>>, index |-> -1, raised |-> None ]

\* the callers that share one deck
Callers == { 1, 2 }

NoCaller == 0

\* a caller that is not in a call of draw
IdleCaller ==
  [ pc |-> "idle", numCards |-> 0, i |-> 0, loaded |-> 0,
    drawnCards |-> <<>>, ret |-> NoRet ]

\* the cards of a list, each with the number of times it occurs
BagOf(d) ==
  [ c \in { d[i] : i \in 1..Len(d) } |->
      Cardinality({ i \in 1..Len(d) : d[i] = c }) ]

Snapshot == [ deck |-> deck, length |-> length, randomInit |-> randomInit ]

----------------------------------------------------------------------------
(* Deck: the operations *)

\* Deck(VariationOf(args), flag)
Construct(args, flag) ==
  /\ ctorArgs = args
  /\ cardVariation = VariationOf(args)
  /\ deck \in InitDecks(VariationOf(args), flag)
  /\ length = Len(deck)
  /\ randomInit = flag
  /\ op = [ name |-> "__init__", args |-> NoArgs ]
  /\ ret = NoRet
  /\ pre = [ deck |-> <<>>, length |-> 0, randomInit |-> flag ]
  /\ original = [ length |-> length, cards |-> BagOf(deck) ]
  /\ drawn = EmptyBag
  /\ callers = [ t \in Callers |-> IdleCaller ]
  /\ lock = NoCaller

\* one owner calls the deck: no caller of draw runs beside it
SingleOwner == UNCHANGED <<callers, lock, guarded>>

Init ==
  /\ guarded = FALSE
  /\ \E args \in CustomArgs, flag \in BOOLEAN : Construct(args, flag)

\* a setRandomInit that shuffles at once when the flag is set
SetRandomInitShuffling(flag) ==
  /\ randomInit' = flag
  /\ op' = [ name |-> "setRandomInit", args |-> [ NoArgs EXCEPT !.randomInit = flag ] ]
  /\ ret' = NoRet
  /\ pre' = Snapshot
  /\ deck' \in (IF flag THEN Shuffles(deck) ELSE { deck })
  /\ UNCHANGED <<ctorArgs, cardVariation, original, drawn, length>>
  /\ SingleOwner

\* Deck.setRandomInit
SetRandomInit(flag) ==
  /\ randomInit' = flag
  /\ op' = [ name |-> "setRandomInit", args |-> [ NoArgs EXCEPT !.randomInit = flag ] ]
  /\ ret' = NoRet
  /\ pre' = Snapshot
  /\ UNCHANGED <<ctorArgs, cardVariation, original, drawn, deck, length>>
  /\ SingleOwner

\* Deck.search
Search(searchCard) ==
  /\ op' = [ name |-> "search", args |-> [ NoArgs EXCEPT !.searchCard = searchCard ] ]
  /\ LET r == SearchLoop(deck, length, searchCard, 0)
     IN ret' = [ NoRet EXCEPT !.index = r.index, !.raised = r.raised ]
  /\ pre' = Snapshot
  /\ UNCHANGED <<ctorArgs, cardVariation, original, drawn, deck, length, randomInit>>
  /\ SingleOwner

\* Deck.draw
Draw(numCards) ==
  /\ op' = [ name |-> "draw", args |-> [ NoArgs EXCEPT !.numCards = numCards ] ]
  /\ pre' = Snapshot
  /\ IF CanDraw(length, numCards)
     THEN LET r == DrawLoop(deck, <<>>, 0, numCards)
          IN /\ length' = length - numCards
             /\ deck' = r.deck
             /\ ret' = IF r.raised = None
                       THEN [ NoRet EXCEPT !.flag = DrawFlag(r.drawnCards),
                                           !.drawnCards = r.drawnCards ]
                       ELSE [ NoRet EXCEPT !.raised = r.raised ]
     ELSE /\ UNCHANGED <<deck, length>>
          /\ ret' = [ NoRet EXCEPT !.flag = DrawFlag(<<>>) ]
  /\ drawn' = drawn (+) BagOf(ret'.drawnCards)
  /\ UNCHANGED <<ctorArgs, cardVariation, original, randomInit>>
  /\ SingleOwner

\* Deck.shuffle
Shuffle ==
  /\ op' = [ name |-> "shuffle", args |-> NoArgs ]
  /\ ret' = NoRet
  /\ pre' = Snapshot
  /\ IF length > 0
     THEN deck' \in Shuffles(deck)
     ELSE UNCHANGED deck
  /\ UNCHANGED <<ctorArgs, cardVariation, original, drawn, length, randomInit>>
  /\ SingleOwner

\* a reset that calls __init__ without the stored flag, so with its default
ResetWithDefaultFlag ==
  /\ op' = [ name |-> "reset", args |-> NoArgs ]
  /\ ret' = NoRet
  /\ pre' = Snapshot
  /\ deck' \in InitDecks(cardVariation, TRUE)
  /\ length' = Len(deck')
  /\ randomInit' = TRUE
  /\ drawn' = EmptyBag
  /\ UNCHANGED <<ctorArgs, cardVariation, original>>
  /\ SingleOwner

\* a reset that puts the remaining cards in order but does not rebuild
ResetWithoutRebuild ==
  /\ op' = [ name |-> "reset", args |-> NoArgs ]
  /\ ret' = NoRet
  /\ pre' = Snapshot
  /\ deck' \in (IF randomInit THEN Shuffles(deck) ELSE { deck })
  /\ length' = Len(deck')
  /\ drawn' = EmptyBag
  /\ UNCHANGED <<ctorArgs, cardVariation, original, randomInit>>
  /\ SingleOwner

\* Deck.reset: self.__init__(self._cardVariation, self._randomInit)
Reset ==
  /\ op' = [ name |-> "reset", args |-> NoArgs ]
  /\ ret' = NoRet
  /\ pre' = Snapshot
  /\ deck' \in InitDecks(cardVariation, randomInit)
  /\ length' = Len(deck')
  /\ drawn' = EmptyBag
  /\ UNCHANGED <<ctorArgs, cardVariation, original, randomInit>>
  /\ SingleOwner

QueryCards ==
  { Card(cardVariation, v, r, n) :
      v \in QueryValues, r \in QueryRanks, n \in QueryNames }

Next ==
  \/ \E flag \in BOOLEAN : SetRandomInit(flag)
  \/ \E c \in QueryCards : Search(c)
  \/ \E n \in DrawArgs : Draw(n)
  \/ Shuffle
  \/ Reset

Spec == Init /\ [][Next]_vars

\* Decks built in base order and never shuffled, the standard 52-card
\* preset among them
InitOrdered ==
  \/ /\ guarded = FALSE
     /\ Construct(Standard52Args, FALSE)
  \/ /\ guarded = FALSE
     /\ \E args \in CustomArgs : Construct(args, FALSE)

NextOrdered ==
  \/ \E c \in QueryCards : Search(c)
  \/ \E n \in DrawArgs : Draw(n)
  \/ Reset

SpecOrdered == InitOrdered /\ [][NextOrdered]_vars

\* draw is handed any integer, negative ones too
AnyDrawArgs == (0 - MaxDraw)..MaxDraw

InitAnyDraw ==
  /\ guarded = FALSE
  /\ \E args \in CustomArgs : Construct(args, FALSE)

NextAnyDraw ==
  \/ \E c \in QueryCards : Search(c)
  \/ \E n \in AnyDrawArgs : length - n <= MaxLength /\ Draw(n)
  \/ Reset

SpecAnyDraw == InitAnyDraw /\ [][NextAnyDraw]_vars

\* a hierarchy with one more key, which the dict does not have
ForeignHierarchy(dict) ==
  Append(PositionHierarchy(dict), <<<<"K","I","N","G">>, Len(dict) + 1>>)

\* variations whose hierarchies may name a key their dicts do not have
HierarchyArgs ==
  UNION { { [ args EXCEPT !.valueHierarchy = vh, !.rankHierarchy = rh ] :
              vh \in { PositionHierarchy(args.cardValues),
                       ForeignHierarchy(args.cardValues) },
              rh \in { PositionHierarchy(args.cardRanks),
                       ForeignHierarchy(args.cardRanks) } } :
          args \in CustomArgs }

InitHierarchy ==
  /\ guarded = FALSE
  /\ \E args \in HierarchyArgs : Construct(args, FALSE)

SpecHierarchy == InitHierarchy /\ [][NextOrdered]_vars

----------------------------------------------------------------------------
(* Deck.draw called by two callers on one deck, step by step.  The steps    *)
(* are the test of the size, the decrement of the size (a read and a write  *)
(* of self._length) and each pop.  When the callers are guarded, each takes *)
(* one mutex before its call of draw and gives it back when the call ends.  *)

\* the mutex is free for the caller, or the callers take none
Acquire(t) ==
  IF guarded THEN lock = NoCaller /\ lock' = t ELSE UNCHANGED lock

\* the caller gives the mutex back
Release(t) ==
  IF guarded THEN lock' = NoCaller ELSE UNCHANGED lock

\* the rest of the deck's state that a step of draw never assigns
DrawFrame ==
  UNCHANGED <<ctorArgs, cardVariation, original, randomInit, guarded,
              op, ret, pre>>

\* draw(numCards) is entered: drawnCards = []
CallDraw(t, numCards) ==
  /\ callers[t].pc = "idle"
  /\ Acquire(t)
  /\ callers' = [ callers EXCEPT ![t] =
                    [ IdleCaller EXCEPT !.pc = "test", !.numCards = numCards ] ]
  /\ UNCHANGED <<deck, length, drawn>>
  /\ DrawFrame

\* if self._length >= numCards
TestLength(t) ==
  /\ callers[t].pc = "test"
  /\ callers' = [ callers EXCEPT ![t].pc =
                    IF CanDraw(length, callers[t].numCards)
                    THEN "load" ELSE "return" ]
  /\ UNCHANGED <<deck, length, drawn, lock>>
  /\ DrawFrame

\* self._length -= numCards: self._length is read
LoadLength(t) ==
  /\ callers[t].pc = "load"
  /\ callers' = [ callers EXCEPT ![t].pc = "store", ![t].loaded = length ]
  /\ UNCHANGED <<deck, length, drawn, lock>>
  /\ DrawFrame

\* self._length -= numCards: the difference is written
StoreLength(t) ==
  /\ callers[t].pc = "store"
  /\ length' = callers[t].loaded - callers[t].numCards
  /\ callers' = [ callers EXCEPT ![t].pc = "loop" ]
  /\ UNCHANGED <<deck, drawn, lock>>
  /\ DrawFrame

\* one turn of "for i in range(numCards)": the next pop, or the end of the
\* loop; a pop on the empty list ends the call with IndexError
Pop(t) ==
  /\ callers[t].pc = "loop"
  /\ LET c == callers[t]
         r == DrawLoop(deck, c.drawnCards, c.i, c.i + 1)
     IN IF c.i >= c.numCards
        THEN /\ callers' = [ callers EXCEPT ![t].pc = "return" ]
             /\ UNCHANGED <<deck, lock>>
        ELSE IF r.raised = None
        THEN /\ deck' = r.deck
             /\ callers' = [ callers EXCEPT ![t].drawnCards = r.drawnCards,
                                            ![t].i = c.i + 1 ]
             /\ UNCHANGED lock
        ELSE /\ callers' = [ callers EXCEPT ![t].pc = "idle",
                                            ![t].ret.raised = r.raised ]
             /\ Release(t)
             /\ UNCHANGED deck
  /\ UNCHANGED <<length, drawn>>
  /\ DrawFrame

\* return len(drawnCards) > 0, drawnCards
ReturnDraw(t) ==
  /\ callers[t].pc = "return"
  /\ callers' = [ callers EXCEPT
                    ![t].pc = "idle",
                    ![t].ret.flag = DrawFlag(callers[t].drawnCards),
                    ![t].ret.drawnCards = callers[t].drawnCards ]
  /\ drawn' = drawn (+) BagOf(callers[t].drawnCards)
  /\ Release(t)
  /\ UNCHANGED <<deck, length>>
  /\ DrawFrame

\* the variations the two callers' deck is built from
CallerArgs ==
  { args \in CustomArgs :
      Len(args.cardValues) = MaxKeys /\ Len(args.cardRanks) = 1 }

InitCallers ==
  /\ guarded \in BOOLEAN
  /\ \E args \in CallerArgs : Construct(args, FALSE)

NextCallers ==
  \/ \E t \in Callers, n \in DrawArgs : CallDraw(t, n)
  \/ \E t \in Callers : TestLength(t)
  \/ \E t \in Callers : LoadLength(t)
  \/ \E t \in Callers : StoreLength(t)
  \/ \E t \in Callers : Pop(t)
  \/ \E t \in Callers : ReturnDraw(t)

SpecCallers == InitCallers /\ [][NextCallers]_vars

----------------------------------------------------------------------------

\* self == other on two Cards
Eq(self, other) ==
  /\ op' = [ name |-> "__eq__",
             args |-> [ NoArgs EXCEPT !.self = self, !.other = other ] ]
  /\ ret' = [ NoRet EXCEPT !.flag = CardEq(self, other) ]
  /\ pre' = Snapshot
  /\ UNCHANGED <<ctorArgs, cardVariation, original, drawn, deck, length, randomInit>>
  /\ SingleOwner

\* self != other on two Cards
Ne(self, other) ==
  /\ op' = [ name |-> "__ne__",
             args |-> [ NoArgs EXCEPT !.self = self, !.other = other ] ]
  /\ ret' = [ NoRet EXCEPT !.flag = CardNe(self, other) ]
  /\ pre' = Snapshot
  /\ UNCHANGED <<ctorArgs, cardVariation, original, drawn, deck, length, randomInit>>
  /\ SingleOwner

\* Cards made one by one: of the deck's variation with a name of their own
\* or the derived one, and of the preset
Cards ==
  { Card(cardVariation, v, r, n) :
      v \in { "A", "2" }, r \in { "U+2664", "U+2667" }, n \in QueryNames }
  \cup
  { Card(STANDARD_52, v, r, None) :
      v \in { "A", "2" }, r \in { "U+2664", "U+2667" } }

NextCards ==
  \/ \E a \in Cards, b \in Cards : Eq(a, b)
  \/ \E a \in Cards, b \in Cards : Ne(a, b)

\* Cards compared with each other, next to a deck of one card
InitCards ==
  /\ guarded = FALSE
  /\ \E args \in CustomArgs :
       /\ Len(args.cardValues) = 1 /\ Len(args.cardRanks) = 1
       /\ Construct(args, FALSE)

SpecCards == InitCards /\ [][NextCards]_vars

----------------------------------------------------------------------------
(* Properties *)

IsDraw == op.name = "draw"

NumCards == op.args.numCards

\* C1: the size the deck reports is the number of cards it holds, in every
\* state reached by shuffle, draw of a count >= 0, search, setRandomInit
\* and reset.
SizeIsCardCount == length = Len(deck)

SizeIsCardCountWitness ==
  /\ IsDraw /\ ret.flag
  /\ length = Len(deck) /\ length > 0 /\ length < original.length

\* C2: a draw of more cards than the deck holds returns (False, []) and
\* leaves the cards, their order and the size as they were.
DrawTooManyIsNoOp ==
  (IsDraw /\ NumCards > pre.length) =>
     /\ ret.flag = FALSE
     /\ ret.drawnCards = <<>>
     /\ ret.raised = None
     /\ deck = pre.deck
     /\ length = pre.length

DrawTooManyWitness ==
  /\ IsDraw /\ NumCards > pre.length
  /\ pre.length > 0 /\ deck = pre.deck /\ ~ret.flag

\* C3: a draw of 0 <= numCards <= size cards removes the last numCards
\* cards, returns them with the former last card first, keeps the prefix
\* before them, and lowers the size by numCards.
DrawTakesFromTheEnd ==
  (IsDraw /\ NumCards >= 0 /\ NumCards <= pre.length) =>
     /\ ret.raised = None
     /\ Len(ret.drawnCards) = NumCards
     /\ \A i \in 1..NumCards :
           ret.drawnCards[i] = pre.deck[Len(pre.deck) + 1 - i]
     /\ deck = SubSeq(pre.deck, 1, Len(pre.deck) - NumCards)
     /\ length = pre.length - NumCards

DrawTakesFromTheEndWitness ==
  /\ IsDraw /\ NumCards >= 2 /\ NumCards < pre.length
  /\ Len(ret.drawnCards) = NumCards
  /\ ret.drawnCards[1] = pre.deck[Len(pre.deck)]
  /\ ret.drawnCards[1] # ret.drawnCards[2]

\* C4 as stated: the flag draw returns is true exactly when the deck held
\* at least numCards cards, numCards = 0 included.
DrawFlagIffEnoughCards ==
  IsDraw => (ret.flag <=> pre.length >= NumCards)

\* C4 as amended: the flag is true exactly when numCards >= 1 and the deck
\* held at least numCards cards; a draw of 0 cards returns False.
DrawFlagIffCardsDrawn ==
  IsDraw => (ret.flag <=> (NumCards >= 1 /\ pre.length >= NumCards))

DrawFlagIffCardsDrawnWitness ==
  /\ IsDraw /\ NumCards = 0 /\ pre.length > 0
  /\ ~ret.flag /\ ret.raised = None /\ deck = pre.deck

\* C5: after any shuffles and draws, reset gives a deck of the size the
\* constructor gave, holding the same cards the same number of times.
ResetRestoresCards ==
  op.name = "reset" =>
     /\ length = original.length
     /\ Len(deck) = original.length
     /\ BagOf(deck) = original.cards

ResetRestoresCardsWitness ==
  /\ op.name = "reset"
  /\ pre.length < original.length
  /\ length = original.length
  /\ BagOf(pre.deck) # BagOf(deck)

\* C6: shuffle keeps the cards, their multiplicities and the size; on an
\* empty deck it changes nothing and raises nothing.
ShuffleKeepsCards ==
  op.name = "shuffle" =>
     /\ ret.raised = None
     /\ length = pre.length
     /\ Len(deck) = Len(pre.deck)
     /\ BagOf(deck) = BagOf(pre.deck)
     /\ (pre.length = 0 => deck = pre.deck)

ShuffleKeepsCardsWitness ==
  /\ op.name = "shuffle"
  /\ deck # pre.deck
  /\ length > 0 /\ length < original.length
  /\ BagOf(deck) = BagOf(pre.deck)

\* the display token a dict gives for a key
TokenOf(dict, key) == dict[CHOOSE i \in 1..Len(dict) : dict[i][1] = key][2]

\* the pairs <<i, j>> of an entry of the values dict and one of the ranks dict
Pairs == (1..Len(ctorArgs.cardValues)) \X (1..Len(ctorArgs.cardRanks))

\* the indices of the deck that hold a card of the given tokens
Holding(value, rank) ==
  { k \in 1..Len(deck) : deck[k].value = value /\ deck[k].rank = rank }

\* C7: a deck built from a variation has |values| x |ranks| cards, one for
\* every pair of an entry of values and an entry of ranks, whatever the keys.
BuildHasOneCardPerPair ==
  op.name = "__init__" =>
     /\ length = Len(ctorArgs.cardValues) * Len(ctorArgs.cardRanks)
     /\ \A p \in Pairs :
           LET value == ctorArgs.cardValues[p[1]][2]
               rank  == ctorArgs.cardRanks[p[2]][2]
           IN Cardinality(Holding(value, rank)) =
                 Cardinality({ q \in Pairs :
                                 /\ ctorArgs.cardValues[q[1]][2] = value
                                 /\ ctorArgs.cardRanks[q[2]][2] = rank })

\* C8 as stated: built with randomInit = false, the deck is in the insertion
\* order of the values dict crossed with that of the ranks dict (values
\* outer, ranks inner); the standard preset gives 52 cards, the first one
\* the ace of spades (U+2664).
BuildInInsertionOrder ==
  (op.name = "__init__" /\ ~randomInit) =>
     LET vd == ctorArgs.cardValues
         rd == ctorArgs.cardRanks
     IN /\ length = Len(vd) * Len(rd)
        /\ Len(deck) = Len(vd) * Len(rd)
        /\ \A i \in 1..Len(vd), j \in 1..Len(rd) :
              LET c == deck[(i - 1) * Len(rd) + j]
              IN c.value = vd[i][2] /\ c.rank = rd[j][2]
        /\ ctorArgs = Standard52Args =>
              /\ length = 52
              /\ deck[1].value = "A" /\ deck[1].rank = "U+2664"
              /\ deck[1].name = "AU+2664"

\* the keys of a dict that the comprehension of Deck.__init__ keeps
KeptKeys(dict) == { k \in Keys(dict) : ATTRIBUTE_SEARCH_KEY(k) }

\* how many of the keys S come before key k
Before(S, k) == Cardinality({ x \in S : StrLess(x, k) })

\* C8 as amended: built with randomInit = false, the deck holds one card
\* for every pair of a values key and a ranks key that match
\* ATTRIBUTE_SEARCH_KEY, in the ascending code point order of the key names
\* (values outer, ranks inner), not in insertion order; the standard preset
\* gives 52 cards, the first one the ace of clubs (U+2667).
BuildInKeyOrder ==
  (op.name = "__init__" /\ ~randomInit) =>
     LET vd == ctorArgs.cardValues
         rd == ctorArgs.cardRanks
         vk == KeptKeys(vd)
         rk == KeptKeys(rd)
     IN /\ length = Cardinality(vk) * Cardinality(rk)
        /\ Len(deck) = Cardinality(vk) * Cardinality(rk)
        /\ \A k \in vk, q \in rk :
              LET c == deck[Before(vk, k) * Cardinality(rk) + Before(rk, q) + 1]
              IN /\ c.value = TokenOf(vd, k)
                 /\ c.rank = TokenOf(rd, q)
                 /\ c.name = Format(ctorArgs.nameScheme, c.value, c.rank)
        /\ ctorArgs = Standard52Args =>
              /\ length = 52
              /\ deck[1].value = "A" /\ deck[1].rank = "U+2667"
              /\ deck[1].name = "AU+2667"

BuildInKeyOrderWitness ==
  /\ op.name = "__init__" /\ ~randomInit
  /\ ctorArgs = Standard52Args
  /\ length = 52
  /\ deck[1].name = "AU+2667"
  /\ deck[52].name = "2U+2664"

\* C9: reset rebuilds with the flag last recorded by the constructor or by
\* setRandomInit; when that flag is false the deck after reset is, position
\* by position, the deck a new Deck of the same variation with
\* randomInit = false holds, and the flag is still false.
ResetInBaseOrder ==
  (op.name = "reset" /\ ~pre.randomInit) =>
     /\ deck = BuildDeck(VariationOf(ctorArgs))
     /\ length = Len(deck)
     /\ ~randomInit

ResetInBaseOrderWitness ==
  /\ op.name = "reset" /\ ~pre.randomInit
  /\ Len(pre.deck) = Len(deck) /\ pre.deck # deck
  /\ deck = BuildDeck(VariationOf(ctorArgs))

\* the Python indices of the cards with the tokens of the card searched for
Matches ==
  { i \in 0..(length - 1) :
      /\ deck[i + 1].value = op.args.searchCard.value
      /\ deck[i + 1].rank = op.args.searchCard.rank }

\* C10: search returns the smallest index below the size whose card has the
\* value and rank of the card searched for, -1 when there is none, and
\* leaves the deck as it was.
SearchFindsFirstMatch ==
  op.name = "search" =>
     /\ ret.raised = None
     /\ IF Matches = {} THEN ret.index = -1
        ELSE ret.index \in Matches /\ \A i \in Matches : ret.index <= i
     /\ deck = pre.deck
     /\ length = pre.length

SearchFindsFirstMatchWitness ==
  /\ op.name = "search"
  /\ ret.index >= 1
  /\ Cardinality(Matches) >= 2
  /\ deck[ret.index + 1].name # op.args.searchCard.name
  /\ deck[ret.index].value = op.args.searchCard.value

\* C11: setRandomInit assigns the flag and nothing else: the cards, their
\* order, the size and the variation are after the call what they were
\* before it, for either flag.
SetRandomInitChangesOnlyFlag ==
  [][ op'.name = "setRandomInit" =>
        /\ randomInit' = op'.args.randomInit
        /\ deck' = deck
        /\ length' = length
        /\ cardVariation' = cardVariation ]_vars

SetRandomInitChangesOnlyFlagWitness ==
  /\ op.name = "setRandomInit"
  /\ randomInit /\ ~pre.randomInit
  /\ deck = pre.deck /\ length = pre.length
  /\ length > 1 /\ length < original.length

\* the two Cards have the same value token and the same rank token
SameTokens(a, b) == a.value = b.value /\ a.rank = b.rank

\* C12: a == b exactly when the value tokens and the rank tokens agree,
\* whatever the names, images and variations; == is reflexive and
\* symmetric, and a != b is the negation of a == b.
CardEqualityByTokens ==
  LET a == op.args.self
      b == op.args.other
  IN /\ op.name = "__eq__" =>
          /\ ret.flag <=> SameTokens(a, b)
          /\ ret.flag <=> CardEq(b, a)
          /\ CardEq(a, a) /\ CardEq(b, b)
          /\ ret.flag <=> ~CardNe(a, b)
     /\ op.name = "__ne__" =>
          /\ ret.flag <=> ~SameTokens(a, b)
          /\ ret.flag <=> ~CardEq(a, b)

CardEqualityByTokensWitness ==
  /\ op.name = "__eq__"
  /\ ret.flag
  /\ op.args.self.name # op.args.other.name
  /\ op.args.self.cardVariation # op.args.other.cardVariation

\* a hierarchy of the variation has a key that its dict does not have
HasForeignKey ==
  \/ ~(Keys(ctorArgs.valueHierarchy) \subseteq Keys(ctorArgs.cardValues))
  \/ ~(Keys(ctorArgs.rankHierarchy) \subseteq Keys(ctorArgs.cardRanks))

\* C13: the construction of a CardVariation one of whose hierarchies has a
\* key that the values (or ranks) do not have fails with an error, and
\* nothing is ever done with that variation.
ForeignHierarchyKeyFails ==
  HasForeignKey => (op.name = "__init__" /\ ret.raised # None)

\* one of the two dicts of the variation is empty
HasEmptyDict == ctorArgs.cardValues = <<>> \/ ctorArgs.cardRanks = <<>>

\* C14: a deck of a variation without values or without ranks is built
\* without error and is empty, with size 0; it stays so through draw,
\* shuffle and reset, and every draw returns (False, []).
EmptyVariationStaysEmpty ==
  HasEmptyDict =>
     /\ deck = <<>>
     /\ length = 0
     /\ ret.raised = None
     /\ IsDraw => (~ret.flag /\ ret.drawnCards = <<>>)

EmptyVariationStaysEmptyWitness ==
  /\ ctorArgs.cardRanks = <<>> /\ Len(ctorArgs.cardValues) = 2
  /\ IsDraw /\ NumCards >= 1
  /\ ~ret.flag /\ deck = <<>> /\ length = 0

\* the display tokens of a dict
Tokens(dict) == { dict[i][2] : i \in 1..Len(dict) }

\* no two keys of the values have the same token, nor two keys of the ranks
HasDistinctTokens ==
  /\ Cardinality(Tokens(ctorArgs.cardValues)) = Len(ctorArgs.cardValues)
  /\ Cardinality(Tokens(ctorArgs.cardRanks)) = Len(ctorArgs.cardRanks)

\* how many cards of a bag have the given tokens
CountOf(bag, value, rank) ==
  LET S == { c \in DOMAIN bag : c.value = value /\ c.rank = rank }
  IN BagCardinality([ c \in S |-> bag[c] ])

\* C15: with distinct value tokens and distinct rank tokens, no two cards
\* left in the deck have the same value and rank, and the cards left
\* together with the cards returned by draw since the last build or reset
\* are every pair of a value token and a rank token, each exactly once.
CardsAreTheFullProduct ==
  HasDistinctTokens =>
     /\ \A i, j \in 1..Len(deck) :
           i # j => ~SameTokens(deck[i], deck[j])
     /\ \A v \in Tokens(ctorArgs.cardValues), r \in Tokens(ctorArgs.cardRanks) :
           CountOf(BagOf(deck), v, r) + CountOf(drawn, v, r) = 1
     /\ \A c \in DOMAIN BagOf(deck) \cup DOMAIN drawn :
           /\ c.value \in Tokens(ctorArgs.cardValues)
           /\ c.rank \in Tokens(ctorArgs.cardRanks)

\* no caller is in a call of draw
AllIdle == \A t \in Callers : callers[t].pc = "idle"

\* a call of draw ended with a pop on the empty list
PoppedEmpty == \E t \in Callers : callers[t].ret.raised = "IndexError"

\* C16: when every call of draw is made under one mutex, the size is the
\* number of cards held whenever no call is running, and no pop is made on
\* the empty list; without the mutex the steps of two calls interleave and
\* a state with a wrong size and a pop on the empty list is reached (the
\* witness).
GuardedDrawIsAtomic ==
  guarded =>
     /\ ~PoppedEmpty
     /\ AllIdle => length = Len(deck)
     /\ \A t, u \in Callers :
           (callers[t].pc # "idle" /\ callers[u].pc # "idle") => t = u

UnguardedDrawRaces ==
  /\ ~guarded
  /\ AllIdle
  /\ length # Len(deck)
  /\ PoppedEmpty

\* C17: a draw of a negative count returns (False, []) and leaves the cards
\* and the size as they were, so the size is never above the size of the
\* full deck, is the number of cards held, and search reads only indices
\* that exist.
NegativeDrawIsNoOp ==
  /\ (IsDraw /\ NumCards < 0) =>
        /\ ret.flag = FALSE /\ ret.drawnCards = <<>> /\ ret.raised = None
        /\ deck = pre.deck
        /\ length = pre.length
  /\ length <= original.length
  /\ length = Len(deck)
  /\ op.name = "search" => ret.raised = None

====
